---- MODULE Spec2Model ----
(***************************************************************************)
(* dm-data-renamer: renaming the tables and columns of a SQLite database   *)
(* to generic numbered names (src/main.py).  The database is modelled by   *)
(* its schema catalog: a sequence of tables in catalog (rowid) order, each *)
(* with a name and the sequence of its column names.  `live` is the        *)
(* catalog as the open connection sees it, `disk` the persisted catalog.   *)
(* main() is followed statement by statement through `pc`.                 *)
(***************************************************************************)
EXTENDS Integers, Sequences, FiniteSets, TLC

\* ---------------------------------------------------------------- bounds
MaxTables == 2
MaxCols == 2
MaxFaults == 1

\* ------------------------------------------------------------- constants
prefix_table == "table_"
prefix_column == "column_"

\* ------------------------------------------------------- pure helpers
Range(s) == {s[k] : k \in 1..Len(s)}

\* the table names and the column lists the input databases are made of:
\* plain names and names the renamer itself generates
TableNames == {"users", "orders", "table_2"}

ColumnLists ==
    {cols \in {<<"id">>, <<"id", "name">>, <<"id", "column_1">>,
               <<"column_1", "id">>, <<"column_2", "id">>,
               <<"id", "name", "column_2">>} : Len(cols) <= MaxCols}

\* the catalogs a database can start with: up to MaxTables tables of
\* distinct names
Catalogs ==
    {<<>>} \cup
    {c \in UNION {[1..m -> [name : TableNames, cols : ColumnLists]]
                     : m \in 1..MaxTables} :
        \A a, b \in 1..Len(c) : a # b => c[a].name # c[b].name}

\* the suffix taken from the 0-based index itself
NewNameZeroBased(prefix, i) == prefix \o ToString(i)

\* f"{prefix}{i+1}" with i the 0-based enumerate index
NewName(prefix, i) == prefix \o ToString(i + 1)

\* an insertion-ordered dict as a sequence of <<key, value>> pairs
DictSet(d, key, value) ==
    IF \E k \in 1..Len(d) : d[k][1] = key
    THEN [k \in 1..Len(d) |-> IF d[k][1] = key THEN <<key, value>> ELSE d[k]]
    ELSE Append(d, <<key, value>>)

DictValues(d) == [k \in 1..Len(d) |-> d[k][2]]

\* SELECT name FROM sqlite_master WHERE type='table'
SelectTableNames(cat) == [k \in 1..Len(cat) |-> cat[k].name]

HasTable(cat, name) == \E k \in 1..Len(cat) : cat[k].name = name

\* PRAGMA table_info("name"): the columns of the table, no rows (and no
\* error) when no table has that name
TableInfo(cat, name) ==
    IF HasTable(cat, name)
    THEN (CHOOSE t \in Range(cat) : t.name = name).cols
    ELSE <<>>

\* ALTER TABLE "old" RENAME TO "new": fails when the statement cannot run
\* (fault), when no table is called old, or when a table is already called
\* new (old itself included); the catalog row keeps its position
AlterTableRename(cat, old, new, fault) ==
    IF fault \/ ~HasTable(cat, old) \/ HasTable(cat, new)
    THEN [ok |-> FALSE, cat |-> cat]
    ELSE [ok |-> TRUE,
          cat |-> [k \in 1..Len(cat) |->
                     IF cat[k].name = old THEN [cat[k] EXCEPT !.name = new]
                     ELSE cat[k]]]

RenameIn(cols, old, new) ==
    [k \in 1..Len(cols) |-> IF cols[k] = old THEN new ELSE cols[k]]

\* ALTER TABLE "table" RENAME COLUMN "old" TO "new": fails on a fault, on a
\* missing table or column, or when another column of the table is called new
AlterColumnRename(cat, table, old, new, fault) ==
    IF \/ fault
       \/ ~HasTable(cat, table)
       \/ old \notin Range(TableInfo(cat, table))
       \/ (new # old /\ new \in Range(TableInfo(cat, table)))
    THEN [ok |-> FALSE, cat |-> cat]
    ELSE [ok |-> TRUE,
          cat |-> [k \in 1..Len(cat) |->
                     IF cat[k].name = table
                     THEN [cat[k] EXCEPT !.cols = RenameIn(cat[k].cols, old, new)]
                     ELSE cat[k]]]

\* the loop body without the dry_run test: the statement is always executed
RenameTableStepNoDryRun(cat, mapping, old_name, i, prefix, dry, fault) ==
    LET new_name == NewName(prefix, i)
        r == AlterTableRename(cat, old_name, new_name, fault)
    IN  [mapping  |-> DictSet(mapping, old_name, new_name),
         executed |-> TRUE,
         ok       |-> r.ok,
         cat      |-> r.cat,
         stmt     |-> [kind |-> "table", table |-> old_name, old |-> old_name,
                       new |-> new_name]]

\* one iteration of the loop of rename_tables
RenameTableStep(cat, mapping, old_name, i, prefix, dry, fault) ==
    LET new_name == NewName(prefix, i)
        r == AlterTableRename(cat, old_name, new_name, fault)
    IN  [mapping  |-> DictSet(mapping, old_name, new_name),
         executed |-> ~dry,
         ok       |-> ~dry /\ r.ok,
         cat      |-> IF dry THEN cat ELSE r.cat,
         stmt     |-> [kind |-> "table", table |-> old_name, old |-> old_name,
                       new |-> new_name]]

\* the inner loop body that only logs: the statement is never executed
RenameColumnStepLogOnly(cat, mapping, table_name, old_name, i, prefix, dry, fault) ==
    [mapping  |-> DictSet(mapping, old_name, NewName(prefix, i)),
     executed |-> FALSE,
     ok       |-> FALSE,
     cat      |-> cat,
     stmt     |-> [kind |-> "column", table |-> table_name, old |-> old_name,
                   new |-> NewName(prefix, i)]]

\* one iteration of the inner loop of rename_columns
RenameColumnStep(cat, mapping, table_name, old_name, i, prefix, dry, fault) ==
    LET new_name == NewName(prefix, i)
        r == AlterColumnRename(cat, table_name, old_name, new_name, fault)
    IN  [mapping  |-> DictSet(mapping, old_name, new_name),
         executed |-> ~dry,
         ok       |-> ~dry /\ r.ok,
         cat      |-> IF dry THEN cat ELSE r.cat,
         stmt     |-> [kind |-> "column", table |-> table_name, old |-> old_name,
                       new |-> new_name]]

\* ------------------------------------------------------------- state
VARIABLES
    path,           \* what args.database names: "ok", "missing", "notfile"
    dry_run,        \* args.dry_run
    autocommit,     \* whether the driver persists each DDL statement at once
    catalog0,       \* the catalog at run start
    disk,           \* the persisted catalog
    live,           \* the catalog seen through the connection
    conn,           \* "unbound", "open", "closed"
    pc,             \* position in main
    exc,            \* exception caught by main's handlers, or "none"
    tables,         \* rename_tables: the fetched table names
    i,              \* rename_tables: enumerate index
    table_mapping,  \* the returned dict
    tIdx,           \* rename_columns: tables of table_mapping.values() done
    columns,        \* rename_columns: fetched column names of the table
    cIdx,           \* rename_columns: enumerate index
    column_mapping, \* rename_columns: dict of the table being processed
    columnLog,      \* per enumerated table: position, name used, its dict
    faults,         \* statements that failed for an external reason so far
    selectFailed,   \* the catalog enumeration raised
    tableFailed,    \* positions of tables whose rename statement failed
    tableInjected,  \* positions of tables whose rename failed externally
    pragmaFailed,   \* positions of tables whose column enumeration raised
    colFailed,      \* <<table position, column position>> of failed renames
    applied,        \* the rename statements that succeeded, in order
    alters,         \* rename statements executed
    ops,            \* database operations performed
    opsAfterClose,  \* database operations performed on a closed connection
    commits,        \* conn.commit() calls
    commitOk,       \* the commit returned normally
    closes,         \* conn.close() calls
    advised         \* handle_foreign_key_constraints has run

inputs == <<path, dry_run, autocommit, catalog0>>
db == <<disk, live>>
tstate == <<tables, i, table_mapping>>
cstate == <<tIdx, columns, cIdx, column_mapping, columnLog>>
history == <<selectFailed, tableFailed, tableInjected, pragmaFailed, colFailed, applied>>
counters == <<alters, ops, opsAfterClose, commits, commitOk, closes, advised>>
vars == <<inputs, db, conn, pc, exc, tstate, cstate, faults, history, counters>>

\* an external failure (locked database, I/O error) can hit a statement
\* while the fault budget lasts
FaultChoices == IF faults < MaxFaults THEN BOOLEAN ELSE {FALSE}

Bump(f) == IF f THEN faults + 1 ELSE faults

\* a database operation through the connection
Op(n) ==
    /\ ops' = ops + n
    /\ opsAfterClose' = IF conn = "closed" THEN opsAfterClose + n ELSE opsAfterClose

Init ==
    /\ path \in {"ok", "missing", "notfile"}
    /\ dry_run \in BOOLEAN
    /\ autocommit \in BOOLEAN
    /\ catalog0 \in Catalogs
    /\ disk = catalog0
    /\ live = catalog0
    /\ conn = "unbound"
    /\ pc = "validate"
    /\ exc = "none"
    /\ tables = <<>>
    /\ i = 0
    /\ table_mapping = <<>>
    /\ tIdx = 0
    /\ columns = <<>>
    /\ cIdx = 0
    /\ column_mapping = <<>>
    /\ columnLog = <<>>
    /\ faults = 0
    /\ selectFailed = FALSE
    /\ tableFailed = {}
    /\ tableInjected = {}
    /\ pragmaFailed = {}
    /\ colFailed = {}
    /\ applied = <<>>
    /\ alters = 0
    /\ ops = 0
    /\ opsAfterClose = 0
    /\ commits = 0
    /\ commitOk = FALSE
    /\ closes = 0
    /\ advised = FALSE

\* ------------------------------------------------------------- main
\* validate_database_path(args.database)
ValidatePath ==
    /\ pc = "validate"
    /\ exc' = CASE path = "missing" -> "FileNotFoundError"
                [] path = "notfile" -> "ValueError"
                [] OTHER -> "none"
    /\ pc' = IF path = "ok" THEN "connect" ELSE "finally"
    /\ UNCHANGED <<inputs, db, conn, tstate, cstate, faults, history, counters>>

\* conn = sqlite3.connect(args.database); cursor = conn.cursor()
Connect ==
    /\ pc = "connect"
    /\ \E fault \in FaultChoices :
        /\ faults' = Bump(fault)
        /\ conn' = IF fault THEN conn ELSE "open"
        /\ exc' = IF fault THEN "sqlite3.Error" ELSE exc
        /\ pc' = IF fault THEN "finally" ELSE "rename_tables"
    /\ UNCHANGED <<inputs, db, tstate, cstate, history, counters>>

\* the catalog query whose error is logged without leaving the function
RenameTablesSelectNoAbort ==
    /\ pc = "rename_tables"
    /\ \E fault \in FaultChoices :
        /\ faults' = Bump(fault)
        /\ selectFailed' = fault
    /\ tables' = SelectTableNames(live)
    /\ pc' = "rename_tables_loop"
    /\ table_mapping' = <<>>
    /\ i' = 0
    /\ Op(1)
    /\ UNCHANGED <<inputs, db, conn, exc, cstate, tableFailed, tableInjected,
                   pragmaFailed, colFailed, applied, alters, commits, commitOk,
                   closes, advised>>

\* rename_tables: the catalog query; an error returns {}
RenameTablesSelect ==
    /\ pc = "rename_tables"
    /\ \E fault \in FaultChoices :
        /\ faults' = Bump(fault)
        /\ selectFailed' = fault
        /\ tables' = IF fault THEN <<>> ELSE SelectTableNames(live)
        /\ pc' = IF fault THEN "rename_columns" ELSE "rename_tables_loop"
    /\ table_mapping' = <<>>
    /\ i' = 0
    /\ Op(1)
    /\ UNCHANGED <<inputs, db, conn, exc, cstate, tableFailed, tableInjected,
                   pragmaFailed, colFailed, applied, alters, commits, commitOk,
                   closes, advised>>

\* rename_tables: one iteration of the for loop
RenameTablesLoop ==
    /\ pc = "rename_tables_loop"
    /\ i < Len(tables)
    /\ \E fault \in (IF dry_run THEN {FALSE} ELSE FaultChoices) :
        LET r == RenameTableStep(live, table_mapping, tables[i + 1], i,
                                 prefix_table, dry_run, fault)
        IN  /\ faults' = Bump(fault)
            /\ table_mapping' = r.mapping
            /\ live' = r.cat
            /\ disk' = IF autocommit THEN r.cat ELSE disk
            /\ tableFailed' = IF r.executed /\ ~r.ok
                              THEN tableFailed \cup {i + 1} ELSE tableFailed
            /\ tableInjected' = IF fault THEN tableInjected \cup {i + 1}
                                ELSE tableInjected
            /\ applied' = IF r.ok THEN Append(applied, r.stmt) ELSE applied
            /\ alters' = IF r.executed THEN alters + 1 ELSE alters
            /\ Op(IF r.executed THEN 1 ELSE 0)
    /\ i' = i + 1
    /\ UNCHANGED <<inputs, conn, pc, exc, tables, cstate, selectFailed,
                   pragmaFailed, colFailed, commits, commitOk, closes, advised>>

\* rename_tables: return table_mapping
RenameTablesReturn ==
    /\ pc = "rename_tables_loop"
    /\ i >= Len(tables)
    /\ pc' = "rename_columns"
    /\ UNCHANGED <<inputs, db, conn, exc, tstate, cstate, faults, history, counters>>

\* the PRAGMA step that lets the column index run on from the last table
RenameColumnsPragmaNoReset ==
    /\ pc = "rename_columns"
    /\ tIdx < Len(table_mapping)
    /\ \E fault \in FaultChoices :
        LET table_name == DictValues(table_mapping)[tIdx + 1]
        IN  /\ faults' = Bump(fault)
            /\ pragmaFailed' = IF fault THEN pragmaFailed \cup {tIdx + 1}
                               ELSE pragmaFailed
            /\ columns' = IF fault THEN columns ELSE TableInfo(live, table_name)
            /\ columnLog' = IF fault THEN columnLog
                            ELSE Append(columnLog, [idx |-> tIdx + 1,
                                                    table |-> table_name,
                                                    mapping |-> <<>>])
            /\ column_mapping' = IF fault THEN column_mapping ELSE <<>>
            /\ cIdx' = cIdx
            /\ pc' = IF fault THEN "advise" ELSE "rename_columns_loop"
    /\ Op(1)
    /\ UNCHANGED <<inputs, db, conn, exc, tstate, tIdx, selectFailed, tableFailed,
                   tableInjected, colFailed, applied, alters, commits, commitOk,
                   closes, advised>>

\* rename_columns: next table of table_mapping.values(), its PRAGMA; an
\* error leaves the for loop through the outer except
RenameColumnsPragma ==
    /\ pc = "rename_columns"
    /\ tIdx < Len(table_mapping)
    /\ \E fault \in FaultChoices :
        LET table_name == DictValues(table_mapping)[tIdx + 1]
        IN  /\ faults' = Bump(fault)
            /\ pragmaFailed' = IF fault THEN pragmaFailed \cup {tIdx + 1}
                               ELSE pragmaFailed
            /\ columns' = IF fault THEN columns ELSE TableInfo(live, table_name)
            /\ columnLog' = IF fault THEN columnLog
                            ELSE Append(columnLog, [idx |-> tIdx + 1,
                                                    table |-> table_name,
                                                    mapping |-> <<>>])
            /\ column_mapping' = IF fault THEN column_mapping ELSE <<>>
            /\ cIdx' = IF fault THEN cIdx ELSE 0
            /\ pc' = IF fault THEN "advise" ELSE "rename_columns_loop"
    /\ Op(1)
    /\ UNCHANGED <<inputs, db, conn, exc, tstate, tIdx, selectFailed, tableFailed,
                   tableInjected, colFailed, applied, alters, commits, commitOk,
                   closes, advised>>

\* rename_columns: one iteration of the inner for loop
RenameColumnsLoop ==
    /\ pc = "rename_columns_loop"
    /\ cIdx < Len(columns)
    /\ \E fault \in (IF dry_run THEN {FALSE} ELSE FaultChoices) :
        LET table_name == DictValues(table_mapping)[tIdx + 1]
            r == RenameColumnStep(live, column_mapping, table_name,
                                  columns[cIdx + 1], cIdx, prefix_column,
                                  dry_run, fault)
        IN  /\ faults' = Bump(fault)
            /\ column_mapping' = r.mapping
            /\ columnLog' = [columnLog EXCEPT ![Len(columnLog)].mapping = r.mapping]
            /\ live' = r.cat
            /\ disk' = IF autocommit THEN r.cat ELSE disk
            /\ colFailed' = IF r.executed /\ ~r.ok
                            THEN colFailed \cup {<<tIdx + 1, cIdx + 1>>}
                            ELSE colFailed
            /\ applied' = IF r.ok THEN Append(applied, r.stmt) ELSE applied
            /\ alters' = IF r.executed THEN alters + 1 ELSE alters
            /\ Op(IF r.executed THEN 1 ELSE 0)
    /\ cIdx' = cIdx + 1
    /\ UNCHANGED <<inputs, conn, pc, exc, tstate, tIdx, columns, selectFailed,
                   tableFailed, tableInjected, pragmaFailed, commits, commitOk,
                   closes, advised>>

\* rename_columns: the inner loop is exhausted, on to the next table
RenameColumnsNextTable ==
    /\ pc = "rename_columns_loop"
    /\ cIdx >= Len(columns)
    /\ tIdx' = tIdx + 1
    /\ pc' = "rename_columns"
    /\ UNCHANGED <<inputs, db, conn, exc, tstate, columns, cIdx, column_mapping,
                   columnLog, faults, history, counters>>

\* rename_columns: the outer loop is exhausted
RenameColumnsReturn ==
    /\ pc = "rename_columns"
    /\ tIdx >= Len(table_mapping)
    /\ pc' = "advise"
    /\ UNCHANGED <<inputs, db, conn, exc, tstate, cstate, faults, history, counters>>

\* handle_foreign_key_constraints: logs only
HandleForeignKeyConstraints ==
    /\ pc = "advise"
    /\ advised' = TRUE
    /\ pc' = "commit"
    /\ UNCHANGED <<inputs, db, conn, exc, tstate, cstate, faults, history,
                   alters, ops, opsAfterClose, commits, commitOk, closes>>

\* the commit issued whatever dry_run says
CommitAlways ==
    /\ pc = "commit"
    /\ \E fault \in FaultChoices :
        /\ faults' = Bump(fault)
        /\ commits' = commits + 1
        /\ commitOk' = ~fault
        /\ disk' = IF fault THEN disk ELSE live
        /\ live' = live
        /\ exc' = IF fault THEN "sqlite3.Error" ELSE exc
        /\ Op(1)
    /\ pc' = "finally"
    /\ UNCHANGED <<inputs, conn, tstate, cstate, history, alters, closes, advised>>

\* if not args.dry_run: conn.commit()
Commit ==
    /\ pc = "commit"
    /\ IF dry_run
       THEN UNCHANGED <<db, exc, faults, ops, opsAfterClose, commits, commitOk>>
       ELSE \E fault \in FaultChoices :
               /\ faults' = Bump(fault)
               /\ commits' = commits + 1
               /\ commitOk' = ~fault
               /\ disk' = IF fault THEN disk ELSE live
               /\ live' = live
               /\ exc' = IF fault THEN "sqlite3.Error" ELSE exc
               /\ Op(1)
    /\ pc' = "finally"
    /\ UNCHANGED <<inputs, conn, tstate, cstate, history, alters, closes, advised>>

\* the cleanup that leaves the connection open
FinallyNoClose ==
    /\ pc = "finally"
    /\ pc' = "done"
    /\ UNCHANGED <<inputs, db, conn, exc, tstate, cstate, faults, history, counters>>

\* finally: if 'conn' in locals(): conn.close()
Finally ==
    /\ pc = "finally"
    /\ conn' = IF conn # "unbound" THEN "closed" ELSE conn
    /\ closes' = IF conn # "unbound" THEN closes + 1 ELSE closes
    /\ live' = disk
    /\ pc' = "done"
    /\ UNCHANGED <<inputs, disk, exc, tstate, cstate, faults, history, alters,
                   ops, opsAfterClose, commits, commitOk, advised>>

Next ==
    \/ ValidatePath
    \/ Connect
    \/ RenameTablesSelect
    \/ RenameTablesLoop
    \/ RenameTablesReturn
    \/ RenameColumnsPragma
    \/ RenameColumnsLoop
    \/ RenameColumnsNextTable
    \/ RenameColumnsReturn
    \/ HandleForeignKeyConstraints
    \/ Commit
    \/ Finally

Spec == Init /\ [][Next]_vars

TypeOK ==
    /\ pc \in {"validate", "connect", "rename_tables", "rename_tables_loop",
               "rename_columns", "rename_columns_loop", "advise", "commit",
               "finally", "done"}
    /\ conn \in {"unbound", "open", "closed"}
    /\ faults \in 0..MaxFaults

\* ------------------------------------------------------------- properties
\* rename_tables has returned to main
AfterRenameTables ==
    /\ conn # "unbound"
    /\ pc \in {"rename_columns", "rename_columns_loop", "advise", "commit",
               "finally", "done"}

\* rename_columns has returned to main
AfterRenameColumns ==
    /\ conn # "unbound"
    /\ pc \in {"advise", "commit", "finally", "done"}

\* the mapping has one entry per table of the catalog at run start, the
\* k-th table mapped to prefix + k
MappingMatchesCatalog ==
    /\ Len(table_mapping) = Len(catalog0)
    /\ \A k \in 1..Len(table_mapping) :
          table_mapping[k] = <<catalog0[k].name, prefix_table \o ToString(k)>>
    /\ \A a, b \in 1..Len(table_mapping) :
          a # b => /\ table_mapping[a][1] # table_mapping[b][1]
                   /\ table_mapping[a][2] # table_mapping[b][2]

\* C1 (as amended): whenever the catalog enumeration succeeds, dry run or
\* not and whether or not rename statements fail, the returned mapping has
\* exactly one key per table of the catalog at run start and the i-th
\* discovered table is mapped to prefix + i, all values distinct.
C1_MappingWhenEnumerated ==
    (AfterRenameTables /\ ~selectFailed) => MappingMatchesCatalog

C1_Witness ==
    /\ AfterRenameTables /\ ~selectFailed
    /\ Len(table_mapping) >= 2
    /\ tableFailed # {}

\* C1 as stated: for all runs of rename_tables the returned mapping has one
\* key per table present at run start.
C1_Original ==
    AfterRenameTables => MappingMatchesCatalog

\* C2: in a dry run the catalog, live and persisted, stays what it was at
\* run start: no rename statement is executed and no commit is issued.
C2_DryRunNoMutation ==
    dry_run => /\ live = catalog0
               /\ disk = catalog0
               /\ alters = 0
               /\ applied = <<>>
               /\ commits = 0

C2_Witness ==
    /\ dry_run
    /\ pc = "done"
    /\ closes = 1
    /\ Len(table_mapping) >= 1
    /\ \E k \in 1..Len(columnLog) : Len(columnLog[k].mapping) >= 1

\* C3: rename_columns enumerates the columns of every table of the mapping
\* under the name that identifies the table in the live database: the
\* original name in a dry run, the new name when the rename was applied;
\* so a dry run lists every column of the table.
C3_EnumeratesCurrentName ==
    (conn = "open" /\ ~selectFailed) =>
        \A k \in 1..Len(columnLog) :
            LET e == columnLog[k]
            IN  IF dry_run
                THEN e.table = catalog0[e.idx].name
                ELSE e.idx \notin tableFailed => e.table = live[e.idx].name

\* the for loop of rename_tables from iteration i on, as a function of the
\* positions whose statement fails externally: the positions that fail
RECURSIVE RenameTablesFailures(_, _, _, _, _, _)
RenameTablesFailures(cat, names, n, prefix, dry, injected) ==
    IF n >= Len(names) THEN {}
    ELSE LET r == RenameTableStep(cat, <<>>, names[n + 1], n, prefix, dry,
                                  (n + 1) \in injected)
         IN  (IF r.executed /\ ~r.ok THEN {n + 1} ELSE {})
             \cup RenameTablesFailures(r.cat, names, n + 1, prefix, dry, injected)

TableStmtsApplied ==
    Cardinality({k \in 1..Len(applied) : applied[k].kind = "table"})

\* C4: in a non-dry run, when the rename of T_k fails, every other table is
\* still attempted with the outcome it would have had if T_k's rename had
\* not failed, and T_k keeps its entry with the intended name.
C4_FailureIsolated ==
    (AfterRenameTables /\ ~dry_run /\ ~selectFailed) =>
        \A k \in tableFailed :
            /\ k \in 1..Len(table_mapping)
            /\ table_mapping[k] = <<catalog0[k].name, prefix_table \o ToString(k)>>
            /\ TableStmtsApplied + Cardinality(tableFailed) = Len(catalog0)
            /\ \A j \in (1..Len(catalog0)) \ {k} :
                 (j \in tableFailed) <=>
                 (j \in RenameTablesFailures(catalog0, SelectTableNames(catalog0), 0,
                                             prefix_table, FALSE, tableInjected \ {k}))

\* C5: when the column enumeration of one table raises, only that table is
\* skipped: every other table of the mapping has its columns enumerated.
C5_EnumerationFailureSkipsOneTable ==
    AfterRenameColumns =>
        \A k \in 1..Len(table_mapping) :
            \/ k \in pragmaFailed
            \/ \E n \in 1..Len(columnLog) : columnLog[n].idx = k

\* C6: when the catalog enumeration fails, rename_tables returns an empty
\* mapping and no table or column rename statement is executed in the run.
C6_EnumerationFailureAborts ==
    selectFailed => /\ table_mapping = <<>>
                    /\ alters = 0
                    /\ applied = <<>>
                    /\ columnLog = <<>>
                    /\ live = catalog0
                    /\ disk = catalog0

C6_Witness ==
    /\ selectFailed
    /\ pc = "done"
    /\ ~dry_run
    /\ Len(catalog0) >= 2

\* what a sequence of successful rename statements makes of a catalog
ApplyStmt(cat, s) ==
    [k \in 1..Len(cat) |->
        IF cat[k].name # s.table THEN cat[k]
        ELSE IF s.kind = "table" THEN [cat[k] EXCEPT !.name = s.new]
        ELSE [cat[k] EXCEPT !.cols = RenameIn(cat[k].cols, s.old, s.new)]]

RECURSIVE Replay(_, _)
Replay(cat, stmts) ==
    IF stmts = <<>> THEN cat
    ELSE Replay(ApplyStmt(cat, Head(stmts)), Tail(stmts))

\* C7: in a non-dry run commit is issued exactly once, after every table and
\* column rename attempt and the advisory, and it persists exactly the
\* renames that succeeded, failed renames notwithstanding; in a dry run
\* commit is never issued.
C7_CommitOnceAtEnd ==
    /\ commits <= 1
    /\ dry_run => commits = 0
    /\ commits = 1 => /\ pc \in {"finally", "done"}
                      /\ advised
                      /\ i = Len(tables)
                      /\ (tIdx = Len(table_mapping) \/ pragmaFailed # {})
    /\ (~dry_run /\ conn # "unbound" /\ pc \in {"finally", "done"}) => commits = 1
    /\ commitOk => disk = Replay(catalog0, applied)

C7_Witness ==
    /\ pc = "done"
    /\ ~dry_run
    /\ commitOk
    /\ tableFailed # {}
    /\ applied # <<>>
    /\ disk # catalog0

\* how far main has got
PcRank ==
    CASE pc = "validate" -> 0
      [] pc = "connect" -> 1
      [] pc = "rename_tables" -> 2
      [] pc = "rename_tables_loop" -> 3
      [] pc \in {"rename_columns", "rename_columns_loop"} -> 4
      [] pc = "advise" -> 5
      [] pc = "commit" -> 6
      [] pc = "finally" -> 7
      [] OTHER -> 8

\* every step of main brings it nearer its end: a later statement, or the
\* next iteration of a loop over a fixed list
Advances ==
    \/ PcRank' > PcRank
    \/ /\ PcRank' = PcRank
       /\ \/ i' > i
          \/ tIdx' > tIdx
          \/ /\ tIdx' = tIdx
             /\ \/ pc = "rename_columns" /\ pc' = "rename_columns_loop"
                \/ pc' = pc /\ cIdx' > cIdx

\* C8: on every exit path of main an opened connection ends up closed,
\* exactly once, and no database operation follows the close; when the path
\* validation fails no connection is opened and no database operation is
\* performed.  Main never stops before its end and every step advances it,
\* so the end, where the connection is closed, is reached.
C8_ConnectionClosed ==
    /\ [](/\ closes <= 1
          /\ opsAfterClose = 0
          /\ conn = "unbound" => (ops = 0 /\ closes = 0)
          /\ path # "ok" => (conn = "unbound" /\ ops = 0)
          /\ conn = "closed" => (closes = 1 /\ pc = "done")
          /\ (pc = "done" /\ conn # "unbound") => conn = "closed"
          /\ pc # "done" => ENABLED Next
          /\ i <= Len(tables) /\ tIdx <= Len(table_mapping) /\ cIdx <= Len(columns))
    /\ [][Advances]_vars

C8_Witness ==
    /\ conn = "closed"
    /\ exc = "sqlite3.Error"
    /\ ops > 0

\* C9: for every table rename_columns processes, the i-th column in catalog
\* order gets prefix + i, i running from 1 to that table's own column count
\* whatever the other tables' column counts are.
C9_ColumnNumbering ==
    \A n \in 1..Len(columnLog) :
        LET e == columnLog[n]
            finished == n < Len(columnLog) \/ pc # "rename_columns_loop"
                        \/ cIdx >= Len(columns)
        IN  /\ \A j \in 1..Len(e.mapping) :
                  e.mapping[j][2] = prefix_column \o ToString(j)
            /\ conn = "open" =>
                  /\ Len(e.mapping) <= Len(TableInfo(live, e.table))
                  /\ finished => Len(e.mapping) = Len(TableInfo(live, e.table))
                  /\ \A j \in 1..Len(e.mapping) :
                        TableInfo(live, e.table)[j] \in {e.mapping[j][1], e.mapping[j][2]}

C9_Witness ==
    /\ pc = "advise"
    /\ Len(columnLog) = 2
    /\ Len(columnLog[1].mapping) = 2
    /\ Len(columnLog[2].mapping) = 1

\* the catalog with every table and column under its generic name
Renamed(cat) ==
    [k \in 1..Len(cat) |->
        [name |-> prefix_table \o ToString(k),
         cols |-> [j \in 1..Len(cat[k].cols) |-> prefix_column \o ToString(j)]]]

RunEnded == pc = "done" /\ conn = "closed"

\* C10 (as amended): after a non-dry run in which no statement fails, the
\* enumerations and the commit included, the schema has exactly the N tables
\* prefix_table + 1..N in discovery order, the i-th with its M_i columns
\* named prefix_column + 1..M_i in their original order.
C10_AllRenamed ==
    (/\ RunEnded /\ ~dry_run
     /\ ~selectFailed /\ pragmaFailed = {} /\ commitOk
     /\ tableFailed = {} /\ colFailed = {}) => disk = Renamed(catalog0)

C10_Witness ==
    /\ RunEnded /\ ~dry_run
    /\ ~selectFailed /\ pragmaFailed = {} /\ commitOk
    /\ tableFailed = {} /\ colFailed = {}
    /\ catalog0 = <<[name |-> "users", cols |-> <<"id", "name">>],
                    [name |-> "orders", cols |-> <<"id">>]>>

\* C10 as stated: after a non-dry run in which no rename statement fails.
C10_Original ==
    (RunEnded /\ ~dry_run /\ tableFailed = {} /\ colFailed = {}) =>
        disk = Renamed(catalog0)
====
